---- MODULE Spec2Model ----
(***************************************************************************)
(* One-Sentence bookkeeping app: the parse pipeline (services/             *)
(* geminiService.ts), the App orchestration (App.tsx), the input box       *)
(* (components/InputSection.tsx), the confirmation modal                   *)
(* (components/ConfirmationModal.tsx), the calendar and the transaction    *)
(* list as one state machine, with six specifications: Spec (a first       *)
(* visit, every provider failure), LiveSpec (Spec with calls that settle), *)
(* ParseSpec (one request over every provider answer), LedgerSpec (a       *)
(* stored ledger, calendar, list, delete), ModalSpec (editing in the       *)
(* confirmation modal) and WriterSpec (every handler of the page).         *)
(*                                                                         *)
(* JavaScript values are encoded as follows.                               *)
(*  - an object is a function from property names to values; a property    *)
(*    that is absent (reads as undefined) is absent from the DOMAIN;       *)
(*  - a value whose shape the code does not know statically (the parsed    *)
(*    JSON of a provider, the argument of a callback) carries a tag t:     *)
(*    "null", "num", "obj", "arr" (JSON array, tagged elements), "list"    *)
(*    (array of plain objects, the ParseResult[] of parseInput);           *)
(*  - a character string that the code trims is a sequence of characters;  *)
(*  - a calendar-date string "YYYY-MM-DD" is the tuple <<y, m, d>> and the *)
(*    empty string is the empty tuple <<>>; a Date object is the record of *)
(*    its local-time year, month and day;                                  *)
(*  - any other string is a TLA+ string, "" being the empty string.        *)
(***************************************************************************)
EXTENDS Integers, Sequences, FiniteSets, TLC

\* ------------------------------------------------------------------ bounds
MaxItems == 2        \* longest list a provider answers with
MaxConfirms == 2     \* confirmations in one behaviour

\* ------------------------------------------------------------------- types
EXPENSE == "EXPENSE"
INCOME == "INCOME"
TransactionType == {EXPENSE, INCOME}
AIProvider == {"gemini", "deepseek"}

\* ------------------------------------------------------ JavaScript helpers
JNull == [t |-> "null"]
JNum(n) == [t |-> "num", n |-> n]
JObj(f) == [t |-> "obj", o |-> f]
JArr(s) == [t |-> "arr", a |-> s]
List(s) == [t |-> "list", a |-> s]

\* o[k] = v on a copy of object o ({...o, [k]: v}).
Put(o, k, v) == [q \in DOMAIN o \cup {k} |-> IF q = k THEN v ELSE o[q]]

\* Boolean(v) of a tagged value: null and 0 are falsy, objects and arrays truthy.
Truthy(v) == CASE v.t = "null" -> FALSE
               [] v.t = "num" -> v.n # 0
               [] OTHER -> TRUE

IsArray(v) == v.t \in {"arr", "list"}

\* The name of array index i (1-based here, 0-based in JavaScript).
IndexKey(i) == ToString(i - 1)

\* The own enumerable properties of a tagged value, as object spread copies them:
\* an array contributes its elements under "0", "1", ...; a number nothing.
OwnProps(v) ==
  CASE v.t = "obj" -> v.o
    [] IsArray(v) -> [k \in {IndexKey(i) : i \in 1..Len(v.a)} |->
                        v.a[CHOOSE i \in 1..Len(v.a) : IndexKey(i) = k]]
    [] OTHER -> << >>

HasProp(v, k) == k \in DOMAIN OwnProps(v)

\* String.prototype.trim on a sequence of characters.
RECURSIVE trimStart(_)
trimStart(s) == IF s # << >> /\ Head(s) = " " THEN trimStart(Tail(s)) ELSE s
RECURSIVE trimEnd(_)
trimEnd(s) == IF s # << >> /\ s[Len(s)] = " " THEN trimEnd(SubSeq(s, 1, Len(s) - 1)) ELSE s
trim(s) == trimEnd(trimStart(s))

Return(v) == [k |-> "return", v |-> v]
Throw(name, message) == [k |-> "throw", e |-> [name |-> name, message |-> message]]

\* ------------------------------------------------------------------- clock
\* The days the wall clock passes through, as ISO dates (UTC).
Days == << <<2024, 1, 31>>, <<2024, 2, 1>> >>
\* new Date().toISOString().split('T')[0] when the clock stands at Days[c].
TodayStr(c) == Days[c]

\* --------------------------------------------------- what a provider answers
\* Records a model may produce. The declared shape requires amount, category,
\* type and date and leaves note optional; strings may be empty. A record with
\* no date is outside the declared shape; DeepSeek output is not held to it.
Categories == {"", "Food"}
Notes == {"", "taxi"}
DateStrs == {<< >>, <<2024, 1, 15>>}
Base == {[amount |-> 15, category |-> c, type |-> EXPENSE] : c \in Categories}
WithDate(S) == S \cup {Put(r, "date", d) : r \in S, d \in DateStrs}
WithNote(S) == S \cup {Put(r, "note", n) : r \in S, n \in Notes}
Records == WithNote(WithDate(Base))

\* Sequences over S of length lo..hi.
SeqsOf(S, lo, hi) == UNION {[1..n -> S] : n \in lo..hi}

RecordLists == SeqsOf({JObj(r) : r \in Records}, 0, MaxItems)

\* The JSON values a response text can denote.
JsonValues ==
  {JNull, JNum(0), JNum(5)}
    \cup {JArr(l) : l \in RecordLists}
    \cup {JObj([transactions |-> JArr(l)]) : l \in RecordLists}
    \cup {JObj([transactions |-> JNum(5)])}
    \cup {JObj(r) : r \in Records}

\* A response text: missing, null, the empty string, text that is not JSON, or
\* the text of a JSON value.
Absent == [c |-> "absent"]
NullContent == [c |-> "null"]
Empty == [c |-> "empty"]
Malformed == [c |-> "malformed"]
Json(v) == [c |-> "json", v |-> v]
Contents(V) == {Absent, NullContent, Empty, Malformed} \cup {Json(v) : v \in V}

\* !text / !content
Falsy(content) == content.c \in {"absent", "null", "empty"}

\* JSON.parse(text): the value, or a SyntaxError.
JSONparse(content) ==
  IF content.c = "json" THEN Return(content.v)
  ELSE Throw("SyntaxError", <<"Unexpected token">>)

\* What generateContent resolves to: a rejection, or a response with a text.
GeminiResponses(V) ==
  {[k |-> "reject", message |-> m] : m \in {<<"fetch failed">>, << >>}}
    \cup {[k |-> "response", text |-> c] : c \in Contents(V) \ {NullContent}}

\* What fetch resolves to: a rejection, a non-success status with a body that
\* may carry error.message, or a success envelope with choices[0].message.content.
DeepSeekResponses(V) ==
  {[k |-> "reject", message |-> <<"Failed to fetch">>]}
    \cup {[k |-> "response", ok |-> FALSE, status |-> st, error |-> m] :
            st \in {"401", "500"}, m \in {<< >>, <<"Authentication Fails">>}}
    \cup {[k |-> "response", ok |-> TRUE, content |-> c] : c \in Contents(V)}

\* ------------------------------------------------------------ geminiService
\* parseWithGemini after generateContent settled with resp.
parseWithGemini(resp) ==
  IF resp.k = "reject" THEN Throw("Error", resp.message)
  ELSE IF Falsy(resp.text) THEN Return(JNull)
  ELSE JSONparse(resp.text)

KeyMissingMessage == <<"DeepSeek API Key not configured. Set DEEPSEEK_API_KEY in .env or the Vercel environment.">>

\* Variant: the check forgets to trim, so a blank key passes.
DeepSeekKeyMissing_NoTrim(apiKey) == ~apiKey.defined \/ apiKey.value = << >>

\* if (!apiKey || apiKey.trim() === '')
DeepSeekKeyMissing(apiKey) == ~apiKey.defined \/ trim(apiKey.value) = << >>

\* The friendly message of a non-success status.
FriendlyMsg(resp) ==
  <<"Request failed (", resp.status, ")">>
    \o (IF resp.error # << >> THEN <<": ">> \o resp.error ELSE << >>)

\* The flexible normalisation of the parsed content.
NormalizeDeepSeek(parsed) ==
  IF parsed.t = "arr" THEN Return(parsed)
  ELSE IF parsed.t = "null"
    THEN Throw("TypeError", <<"Cannot read properties of null (reading 'transactions')">>)
  ELSE IF HasProp(parsed, "transactions") /\ Truthy(parsed.o.transactions)
          /\ parsed.o.transactions.t = "arr"
    THEN Return(parsed.o.transactions)
  ELSE Return(JArr(<<parsed>>))

\* parseWithDeepSeek after fetch settled with resp (the key was configured).
DeepSeekAfterFetch(resp) ==
  IF resp.k = "reject" THEN Throw("TypeError", resp.message)
  ELSE IF ~resp.ok THEN Throw("Error", FriendlyMsg(resp))
  ELSE IF Falsy(resp.content) THEN Return(JNull)
  ELSE IF JSONparse(resp.content).k = "throw" THEN JSONparse(resp.content)
  ELSE NormalizeDeepSeek(JSONparse(resp.content).v)

\* parseWithDeepSeek: the credential check precedes the fetch.
parseWithDeepSeek(apiKey, resp) ==
  IF DeepSeekKeyMissing(apiKey) THEN Throw("Error", KeyMissingMessage)
  ELSE DeepSeekAfterFetch(resp)

\* Variant: the date is spread through without a default.
PostProcess_NoDateDefault(item, todayStr) ==
  LET o == OwnProps(item)
  IN  IF "note" \in DOMAIN o /\ o.note # "" THEN o
      ELSE IF "category" \in DOMAIN o THEN Put(o, "note", o.category)
      ELSE o

\* Variant: the note is always taken from the category.
PostProcess_NoteFromCategory(item, todayStr) ==
  LET o == OwnProps(item)
      date == IF "date" \in DOMAIN o /\ o.date # << >> THEN o.date ELSE todayStr
      withDate == Put(o, "date", date)
  IN  IF "category" \in DOMAIN o THEN Put(withDate, "note", o.category) ELSE withDate

\* { ...item, date: item.date || todayStr, note: item.note || item.category }
\* A property whose value is undefined is left out.
PostProcess(item, todayStr) ==
  LET o == OwnProps(item)
      date == IF "date" \in DOMAIN o /\ o.date # << >> THEN o.date ELSE todayStr
      withDate == Put(o, "date", date)
  IN  IF "note" \in DOMAIN o /\ o.note # "" THEN withDate
      ELSE IF "category" \in DOMAIN o THEN Put(withDate, "note", o.category)
      ELSE [k \in DOMAIN withDate \ {"note"} |-> withDate[k]]

\* Variant: the empty list is passed on instead of becoming null.
parseInput_KeepsEmpty(adapter, todayStr) ==
  IF adapter.k = "throw" THEN adapter
  ELSE LET data == adapter.v IN
    IF ~Truthy(data) THEN Return(JNull)
    ELSE IF ~IsArray(data)
      THEN Throw("TypeError", <<"data.map is not a function">>)
    ELSE Return(List([i \in 1..Len(data.a) |->
                        [k \in DOMAIN OwnProps(data.a[i]) |-> OwnProps(data.a[i])[k]]]))

\* parseInput once the selected adapter settled with `adapter`.
parseInput(adapter, todayStr) ==
  IF adapter.k = "throw" THEN adapter
  ELSE LET data == adapter.v IN
    IF ~Truthy(data) \/ (IsArray(data) /\ Len(data.a) = 0) THEN Return(JNull)
    ELSE IF ~IsArray(data)
      THEN Throw("TypeError", <<"data.map is not a function">>)
    ELSE Return(List([i \in 1..Len(data.a) |-> PostProcess(data.a[i], todayStr)]))

\* ------------------------------------------------------------------- dates
\* A Date object is shown by its local-time getters: [y, m, d] with m in 1..12
\* (getMonth() + 1), or InvalidDate (its getters return NaN); the selected date
\* may be null.
InvalidDate == [nan |-> TRUE]
NullDate == [null |-> TRUE]
IsValidDate(d) == "y" \in DOMAIN d

\* The zones a browser may run in: one ahead of UTC, one behind it.
TimeZones == {"Asia/Shanghai", "America/New_York"}
BehindUTC(tz) == tz = "America/New_York"

IsLeap(y) == (y % 4 = 0 /\ y % 100 # 0) \/ y % 400 = 0
DaysInMonth(y, m) ==
  IF m = 2 THEN (IF IsLeap(y) THEN 29 ELSE 28)
  ELSE IF m \in {4, 6, 9, 11} THEN 30 ELSE 31

\* The calendar day before y-m-d.
PrevDay(y, m, d) ==
  IF d > 1 THEN [y |-> y, m |-> m, d |-> d - 1]
  ELSE IF m > 1 THEN [y |-> y, m |-> m - 1, d |-> DaysInMonth(y, m - 1)]
  ELSE [y |-> y - 1, m |-> 12, d |-> 31]

\* new Date(s) for a date-only string s: the instant is midnight UTC of that
\* day, which a zone behind UTC shows as the evening of the day before. The
\* empty string gives an Invalid Date.
NewDateOfString(s, tz) ==
  IF s = << >> THEN InvalidDate
  ELSE IF BehindUTC(tz) THEN PrevDay(s[1], s[2], s[3])
  ELSE [y |-> s[1], m |-> s[2], d |-> s[3]]

\* new Date(v) for v = obj[k]: undefined gives an Invalid Date.
NewDateOfProp(obj, k, tz) ==
  IF HasProp(obj, k) THEN NewDateOfString(OwnProps(obj)[k], tz) ELSE InvalidDate

\* a.getMonth() !== b.getMonth() || a.getFullYear() !== b.getFullYear()
\* (NaN !== x holds for every x).
MonthDiffers(a, b) ==
  IF IsValidDate(a) /\ IsValidDate(b) THEN a.m # b.m \/ a.y # b.y ELSE TRUE

\* ------------------------------------------------------------- environment
\* process.env.DEEPSEEK_API_KEY: not set, "", " ", "k".
ApiKeys ==
  {[defined |-> FALSE, value |-> << >>]}
    \cup {[defined |-> TRUE, value |-> v] : v \in {<< >>, <<" ">>, <<"k">>}}

\* What the user types into the input box.
Texts == {<<" ">>, <<"a">>}

\* The provider answers of the application runs: no list, the empty list, one
\* complete record, and a batch whose second record has neither note nor date.
AppRecord1 ==
  [amount |-> 15, category |-> "Food", type |-> EXPENSE,
   date |-> <<2024, 1, 15>>, note |-> "taxi"]
AppRecord2 == [amount |-> 100, category |-> "Salary", type |-> INCOME]
AppJsonValues ==
  {JNull, JArr(<< >>), JArr(<<JObj(AppRecord1)>>),
   JArr(<<JObj(AppRecord1), JObj(AppRecord2)>>)}
\* Per provider, the answers a request may get.
Responses(V) == [p \in AIProvider |->
                   IF p = "deepseek" THEN DeepSeekResponses(V) ELSE GeminiResponses(V)]
AppResponses == Responses(AppJsonValues)
AllResponses == Responses(JsonValues)

\* ------------------------------------------------------------------- state
VARIABLES
  transactions,        \* App: the transaction list, newest first
  isParsing,           \* App
  provider,            \* App
  modalOpen,           \* App
  currentParseResult,  \* App: JNull or the List parseInput returned
  viewDate,            \* App: Date
  selectedDate,        \* App: Date or NullDate
  items,               \* ConfirmationModal: the pending items
  text,                \* InputSection: the input box
  isListening,         \* InputSection: a speech-recognition session is open
  inflight,            \* parse requests awaiting their provider
  apiKey,              \* the DeepSeek credential of the build
  timeZone,            \* the time zone of the browser
  alerts,              \* alert() dialogs the latest step showed
  storage,             \* the persisted collection
  clock,               \* index into Days
  nextId,              \* ids handed out so far, plus one
  last                 \* history: the request the latest step settled, if any

vars == <<transactions, isParsing, provider, modalOpen, currentParseResult,
          viewDate, selectedDate, items, text, isListening, inflight, apiKey,
          timeZone, alerts, storage, clock, nextId, last>>

Unsettled == [settled |-> FALSE]

\* The persistence store: one serialized collection under a single key. The
\* key may be missing, or hold text that does not parse.
NoBlob == [blob |-> "none"]
CorruptBlob == [blob |-> "corrupt"]
saveTransactions(ts) == [blob |-> "list", v |-> ts]
loadTransactions(st) == IF st.blob = "list" THEN st.v ELSE << >>

\* new Date() when the clock stands at Days[c].
Today(c) == [y |-> Days[c][1], m |-> Days[c][2], d |-> Days[c][3]]

\* The first render with its effects, the browser's storage holding stored.
Boot(stored) ==
  /\ transactions = loadTransactions(stored)
  /\ storage = saveTransactions(transactions)
  /\ isParsing = FALSE
  /\ provider = "gemini"
  /\ modalOpen = FALSE
  /\ currentParseResult = JNull
  /\ clock = 1
  /\ viewDate = Today(clock)
  /\ selectedDate = NullDate
  /\ items = << >>
  /\ text = << >>
  /\ isListening = FALSE
  /\ inflight = << >>
  /\ apiKey \in ApiKeys
  /\ timeZone \in TimeZones
  /\ alerts = << >>
  /\ nextId = 1
  /\ last = Unsettled

\* A first visit: nothing is stored yet.
Init == Boot(NoBlob)

\* ------------------------------------------------------------ InputSection
\* Variant: the guard forgets isLoading.
SubmitBlocked_IgnoresLoading(t, isLoading) == trim(t) = << >>

\* handleSubmit's early return: if (!text.trim() || isLoading) return;
SubmitBlocked(t, isLoading) == trim(t) = << >> \/ isLoading

\* The network calls a request issues before it first suspends: DeepSeek
\* throws on a missing key before fetch; Gemini always calls generateContent.
FetchesIssued(p, key) == IF p = "deepseek" /\ DeepSeekKeyMissing(key) THEN 0 ELSE 1

\* A step that settles no request shows no alert.
Quiet == alerts' = << >> /\ last' = Unsettled

\* onChange of the input box (disabled while loading).
TypeText(t) ==
  /\ ~isParsing
  /\ text # t
  /\ text' = t
  /\ Quiet
  /\ UNCHANGED <<isListening, transactions, isParsing, provider, modalOpen,
                 currentParseResult, viewDate, selectedDate, items, inflight,
                 apiKey, timeZone, storage, clock, nextId>>

\* Variant: switching provider empties the list.
SetProvider_ClearsList(p) ==
  /\ provider # p
  /\ provider' = p
  /\ transactions' = << >>
  /\ storage' = saveTransactions(<< >>)
  /\ Quiet
  /\ UNCHANGED <<isListening, isParsing, modalOpen, currentParseResult, viewDate,
                 selectedDate, items, text, inflight, apiKey, timeZone, clock,
                 nextId>>

\* The provider toggle.
SetProvider(p) ==
  /\ provider # p
  /\ provider' = p
  /\ Quiet
  /\ UNCHANGED <<isListening, transactions, isParsing, modalOpen,
                 currentParseResult, viewDate, selectedDate, items, text,
                 inflight, apiKey, timeZone, storage, clock, nextId>>

\* The microphone button (disabled while loading): toggleListening, with the
\* session's onstart.
toggleListening ==
  /\ ~isParsing
  /\ isListening' = ~isListening
  /\ Quiet
  /\ UNCHANGED <<transactions, isParsing, provider, modalOpen,
                 currentParseResult, viewDate, selectedDate, items, text,
                 inflight, apiKey, timeZone, storage, clock, nextId>>

\* recognition.onresult: setText(initialText + spacer + transcript), whatever
\* isLoading is; the text it composes is any text.
SpeechResult(t) ==
  /\ isListening
  /\ text # t
  /\ text' = t
  /\ Quiet
  /\ UNCHANGED <<transactions, isParsing, provider, modalOpen,
                 currentParseResult, viewDate, selectedDate, items, isListening,
                 inflight, apiKey, timeZone, storage, clock, nextId>>

\* recognition.onend / onerror.
SpeechEnd ==
  /\ isListening
  /\ isListening' = FALSE
  /\ Quiet
  /\ UNCHANGED <<transactions, isParsing, provider, modalOpen,
                 currentParseResult, viewDate, selectedDate, items, text,
                 inflight, apiKey, timeZone, storage, clock, nextId>>

\* Submit button or Enter key: handleSubmit, then handleParse up to its await.
handleSubmit ==
  /\ ~SubmitBlocked(text, isParsing)
  /\ isParsing' = TRUE
  /\ inflight' = Append(inflight, [provider |-> provider,
                                   fetches |-> FetchesIssued(provider, apiKey)])
  /\ text' = << >>
  /\ Quiet
  /\ UNCHANGED <<isListening, transactions, provider, modalOpen,
                 currentParseResult, viewDate, selectedDate, items, apiKey, timeZone,
                 storage, clock, nextId>>

\* --------------------------------------------------------- App.handleParse
ProviderName(p) == IF p = "deepseek" THEN "DeepSeek" ELSE "Gemini"
UnrecognizedMsg(p) ==
  <<"[", p, "] ", "could not recognize the input, please be more specific">>
ErrorMsg(p, e) ==
  <<"[", ProviderName(p), "] ", "error: ">>
    \o (IF e.message # << >> THEN e.message ELSE <<"unknown error, retry later">>)

\* if (result): the modal opens on a non-null result.
OpensModal(result) == result.k = "return" /\ Truthy(result.v)

\* Variant: a caught error is only logged.
AlertsFor_SilentError(selectedProvider, result) ==
  IF OpensModal(result) THEN << >>
  ELSE IF result.k = "return" THEN <<UnrecognizedMsg(selectedProvider)>>
  ELSE << >>

\* Variant: a null result is reported through the error message.
AlertsFor_NullAsError(selectedProvider, result) ==
  IF OpensModal(result) THEN << >>
  ELSE IF result.k = "return"
    THEN <<ErrorMsg(selectedProvider, [name |-> "Error", message |-> << >>])>>
  ELSE <<ErrorMsg(selectedProvider, result.e)>>

\* The alert() calls of handleParse once parseInput settled with result.
AlertsFor(selectedProvider, result) ==
  IF OpensModal(result) THEN << >>
  ELSE IF result.k = "return" THEN <<UnrecognizedMsg(selectedProvider)>>
  ELSE <<ErrorMsg(selectedProvider, result.e)>>

\* JSON.parse(JSON.stringify(initialData)) of the modal's effect.
DeepCopy(l) == [i \in 1..Len(l) |-> [k \in DOMAIN l[i] |-> l[i][k]]]

RemoveAt(s, i) == SubSeq(s, 1, i - 1) \o SubSeq(s, i + 1, Len(s))

\* The adapter parseInput dispatches to.
Adapter(p, key, resp) ==
  IF p = "deepseek" THEN parseWithDeepSeek(key, resp) ELSE parseWithGemini(resp)

\* Variant: setIsParsing(false) sits at the end of the try block, not in finally.
Finally_OnlyOnSuccess(result) == IF result.k = "throw" THEN isParsing ELSE FALSE

\* finally { setIsParsing(false) }
Finally(result) == FALSE

\* handleParse after the await, with the modal's effect on initialData.
Settle(i, resp) ==
  LET req == inflight[i]
      adapter == Adapter(req.provider, apiKey, resp)
      result == parseInput(adapter, TodayStr(clock))
  IN  /\ IF OpensModal(result)
           THEN /\ currentParseResult' = result.v
                /\ modalOpen' = TRUE
                /\ items' = DeepCopy(result.v.a)
           ELSE UNCHANGED <<currentParseResult, modalOpen, items>>
      /\ alerts' = AlertsFor(req.provider, result)
      /\ isParsing' = Finally(result)
      /\ inflight' = RemoveAt(inflight, i)
      /\ last' = [settled |-> TRUE, provider |-> req.provider, fetches |-> req.fetches,
                  resp |-> resp, today |-> TodayStr(clock),
                  adapter |-> adapter, result |-> result]
      /\ UNCHANGED <<isListening, transactions, provider, viewDate,
                     selectedDate, text, apiKey, timeZone, storage, clock, nextId>>

NoResponse == [k |-> "none"]

\* A request that threw before any network call settles.
SettleRejected ==
  \E i \in 1..Len(inflight) : inflight[i].fetches = 0 /\ Settle(i, NoResponse)

\* The provider answers a request, with one of pool[provider].
Respond(pool) ==
  \E i \in 1..Len(inflight) :
    /\ inflight[i].fetches > 0
    /\ \E resp \in pool[inflight[i].provider] : Settle(i, resp)

\* The wall clock reaches the next day.
Tick ==
  /\ clock < Len(Days)
  /\ clock' = clock + 1
  /\ Quiet
  /\ UNCHANGED <<isListening, transactions, isParsing, provider, modalOpen,
                 currentParseResult, viewDate, selectedDate, items, text,
                 inflight, apiKey, timeZone, storage, nextId>>

\* ------------------------------------------------------- ConfirmationModal
\* if (!isOpen || items.length === 0) return null;
ModalRendered == modalOpen /\ Len(items) # 0

\* ------------------------------------------- App.handleConfirmTransaction
\* { id: uuidv4(), ...data, createdAt: Date.now() }
NewTransaction(data, id, now) ==
  LET o == OwnProps(data)
      spread == [k \in {"id"} \cup DOMAIN o |-> IF k \in DOMAIN o THEN o[k] ELSE id]
  IN  Put(spread, "createdAt", now)

\* Variant: the new transaction replaces the list.
Prepend_Replaces(newTransaction, prev) == <<newTransaction>>

\* setTransactions(prev => [newTransaction, ...prev])
Prepend(newTransaction, prev) == <<newTransaction>> \o prev

\* Variant: the effect never runs.
SaveEffect_Skips == storage' = storage

\* useEffect(() => saveTransactions(transactions), [transactions]): the effect
\* runs after a render in which the list changed.
SaveEffect ==
  storage' = IF transactions' # transactions THEN saveTransactions(transactions')
             ELSE storage

\* handleConfirmTransaction(data), with the save effect on transactions.
handleConfirmTransaction(data) ==
  /\ nextId <= MaxConfirms
  /\ transactions' = Prepend(NewTransaction(data, nextId, clock), transactions)
  /\ nextId' = nextId + 1
  /\ modalOpen' = FALSE
  /\ currentParseResult' = JNull
  /\ selectedDate' = NullDate
  /\ viewDate' = IF MonthDiffers(NewDateOfProp(data, "date", timeZone), viewDate)
                 THEN NewDateOfProp(data, "date", timeZone) ELSE viewDate
  /\ SaveEffect
  /\ Quiet
  /\ UNCHANGED <<isListening, isParsing, provider, items, text, inflight,
                 apiKey, timeZone, clock>>

\* The modal's Save / Save All button: onConfirm(items), items being the array.
Confirm == ModalRendered /\ handleConfirmTransaction(List(items))

\* Variant: Cancel stores the pending items.
Cancel_Commits ==
  /\ ModalRendered
  /\ modalOpen' = FALSE
  /\ transactions' = items \o transactions
  /\ storage' = saveTransactions(transactions')
  /\ Quiet
  /\ UNCHANGED <<isListening, isParsing, provider, currentParseResult, viewDate,
                 selectedDate, items, text, inflight, apiKey, timeZone, clock,
                 nextId>>

\* The modal's Cancel button: onCancel.
Cancel ==
  /\ ModalRendered
  /\ modalOpen' = FALSE
  /\ Quiet
  /\ UNCHANGED <<isListening, transactions, isParsing, provider,
                 currentParseResult, viewDate, selectedDate, items, text,
                 inflight, apiKey, timeZone, storage, clock, nextId>>

\* Variant: the pending items are the parse result itself, edited in place.
SetItems_WritesThrough(newItems) ==
  /\ items' = newItems
  /\ currentParseResult' = List(newItems)
  /\ Quiet
  /\ UNCHANGED <<isListening, transactions, isParsing, provider, modalOpen,
                 viewDate, selectedDate, text, inflight, apiKey, timeZone,
                 storage, clock, nextId>>

\* The pending items change; nothing else does.
SetItems(newItems) ==
  /\ items' = newItems
  /\ Quiet
  /\ UNCHANGED <<isListening, transactions, isParsing, provider, modalOpen,
                 currentParseResult, viewDate, selectedDate, text, inflight,
                 apiKey, timeZone, storage, clock, nextId>>

isBulk == Len(items) > 1

\* What the modal renders: nothing, the single form, or the batch list.
Mode == IF ~ModalRendered THEN "none" ELSE IF ~isBulk THEN "single" ELSE "batch"

\* The categories the modal offers (four of the nine, in translation).
DEFAULT_CATEGORIES == {"Food", "Transport", "Salary", "Other"}

\* What the user leaves in a number input: nothing, or a number.
Cleared == [text |-> "empty"]
Typed(n) == [text |-> "num", n |-> n]
\* parseFloat(e.target.value) || 0: NaN and 0 give 0.
parseFloatOr0(value) == IF value.text = "num" THEN value.n ELSE 0

\* The fields the modal edits, with the values an edit may set.
TypedAmounts == {Cleared, Typed(-5)}
DateInputs == {<<2024, 2, 1>>}
NoteInputs == {""}
FieldValues(field) ==
  CASE field = "amount" -> {parseFloatOr0(v) : v \in TypedAmounts}
    [] field = "date" -> DateInputs
    [] field = "note" -> NoteInputs
    [] field = "category" -> DEFAULT_CATEGORIES

Flip(type) == IF type = EXPENSE THEN INCOME ELSE EXPENSE

\* Variant: the edited item is added after the existing ones.
handleSingleChange_Appends(prev, field, value) == Append(prev, Put(prev[1], field, value))

\* handleSingleChange: [{ ...prev[0], [field]: value }]
handleSingleChange(prev, field, value) == <<Put(prev[1], field, value)>>

\* Variant: the field is set in every row.
handleBulkChange_EveryRow(prev, index, field, value) ==
  [i \in 1..Len(prev) |-> Put(prev[i], field, value)]

\* handleBulkChange: a copy of prev with { ...prev[index], [field]: value } at index.
handleBulkChange(prev, index, field, value) ==
  [i \in 1..Len(prev) |-> IF i = index THEN Put(prev[i], field, value) ELSE prev[i]]

\* removeBulkItem: prev.filter((_, i) => i !== index)
removeBulkItem(prev, index) == RemoveAt(prev, index)

\* Single mode: the amount, note and date inputs and the category buttons.
SingleEdit(fields) ==
  /\ ModalRendered
  /\ ~isBulk
  /\ \E field \in fields : \E value \in FieldValues(field) :
       /\ (field \in DOMAIN items[1] => items[1][field] # value)
       /\ SetItems(handleSingleChange(items, field, value))

\* Single mode: the Expense / Income button.
toggleSingleType ==
  /\ ModalRendered
  /\ ~isBulk
  /\ SetItems(handleSingleChange(items, "type", Flip(items[1].type)))

\* Batch mode: the inputs and the select of row idx.
BulkEdit(fields) ==
  /\ ModalRendered
  /\ isBulk
  /\ \E idx \in 1..Len(items) : \E field \in fields : \E value \in FieldValues(field) :
       /\ (field \in DOMAIN items[idx] => items[idx][field] # value)
       /\ SetItems(handleBulkChange(items, idx, field, value))

\* Batch mode: the EXP / INC button of row idx.
BulkToggleType ==
  /\ ModalRendered
  /\ isBulk
  /\ \E idx \in 1..Len(items) :
       SetItems(handleBulkChange(items, idx, "type", Flip(items[idx].type)))

\* Variant: the remove button is offered in single mode too.
BulkRemove_AnyMode ==
  /\ ModalRendered
  /\ \E idx \in 1..Len(items) : SetItems(removeBulkItem(items, idx))

\* Batch mode: the remove button of row idx.
BulkRemove ==
  /\ ModalRendered
  /\ isBulk
  /\ \E idx \in 1..Len(items) : SetItems(removeBulkItem(items, idx))

\* ------------------------------------------------------------ App: the views
\* a.getFullYear() === b.getFullYear() && a.getMonth() === b.getMonth()
\* (NaN === x holds for no x).
SameMonth(a, b) == IsValidDate(a) /\ IsValidDate(b) /\ a.y = b.y /\ a.m = b.m
SameDay(a, b) == SameMonth(a, b) /\ a.d = b.d

\* new Date(t.date)
DateOfTransaction(t, tz) == NewDateOfProp(JObj(t), "date", tz)

monthTransactions(ts, view, tz) ==
  LET InMonth(t) == SameMonth(DateOfTransaction(t, tz), view)
  IN  SelectSeq(ts, InMonth)

listTransactions(ts, view, selected, tz) ==
  LET OnDay(t) == SameDay(DateOfTransaction(t, tz), selected)
  IN  IF selected = NullDate THEN monthTransactions(ts, view, tz)
      ELSE SelectSeq(monthTransactions(ts, view, tz), OnDay)

\* What the list shows now.
Shown == listTransactions(transactions, viewDate, selectedDate, timeZone)

\* ---------------------------------------------------------------- Calendar
\* dailyStats: the forEach over the month's transactions, stats so far first.
RECURSIVE dailyStatsFrom(_, _, _, _)
dailyStatsFrom(stats, ts, view, tz) ==
  IF ts = << >> THEN stats
  ELSE LET t == Head(ts)
           d == DateOfTransaction(t, tz)
           amount == IF t.type = EXPENSE THEN 0 - t.amount ELSE t.amount
           before == IF IsValidDate(d) /\ d.d \in DOMAIN stats THEN stats[d.d] ELSE 0
       IN  IF SameMonth(d, view)
             THEN dailyStatsFrom(Put(stats, d.d, before + amount), Tail(ts), view, tz)
             ELSE dailyStatsFrom(stats, Tail(ts), view, tz)

dailyStats(ts, view, tz) == dailyStatsFrom(<< >>, ts, view, tz)

\* The days the grid shows: none when the viewed date is invalid.
DaysOfGrid(view) == IF IsValidDate(view) THEN 1..DaysInMonth(view.y, view.m) ELSE {}

\* new Date(year, month, day) for a day of the grid.
NewDateOfDay(view, day) == [y |-> view.y, m |-> view.m, d |-> day]

\* Variant: a click always selects.
handleDateClick_AlwaysSelects(day) ==
  /\ selectedDate' = NewDateOfDay(viewDate, day)
  /\ Quiet
  /\ UNCHANGED <<isListening, transactions, isParsing, provider, modalOpen,
                 currentParseResult, viewDate, items, text, inflight, apiKey,
                 timeZone, storage, clock, nextId>>

\* handleDateClick(day)
handleDateClick(day) ==
  /\ selectedDate' = IF selectedDate # NullDate /\ SameDay(selectedDate, NewDateOfDay(viewDate, day))
                     THEN NullDate ELSE NewDateOfDay(viewDate, day)
  /\ Quiet
  /\ UNCHANGED <<isListening, transactions, isParsing, provider, modalOpen,
                 currentParseResult, viewDate, items, text, inflight, apiKey,
                 timeZone, storage, clock, nextId>>

\* The days a user clicks.
ClickDays == {15, 30, 31}

\* A click on a day cell (the modal, when shown, covers the page).
DateClick ==
  /\ ~ModalRendered
  /\ \E day \in DaysOfGrid(viewDate) \cap ClickDays : handleDateClick(day)

\* The Month button next to the title: onSelectDate(null).
ClearSelection ==
  /\ ~ModalRendered
  /\ selectedDate # NullDate
  /\ selectedDate' = NullDate
  /\ Quiet
  /\ UNCHANGED <<isListening, transactions, isParsing, provider, modalOpen,
                 currentParseResult, viewDate, items, text, inflight, apiKey,
                 timeZone, storage, clock, nextId>>

\* newDate = new Date(prev); newDate.setMonth(month): the month index may leave
\* 1..12 by one, and a day the month lacks rolls over into the next month.
SetMonth(prev, month) ==
  IF ~IsValidDate(prev) THEN InvalidDate
  ELSE LET y == IF month < 1 THEN prev.y - 1 ELSE IF month > 12 THEN prev.y + 1 ELSE prev.y
           m == IF month < 1 THEN 12 ELSE IF month > 12 THEN 1 ELSE month
       IN  IF prev.d <= DaysInMonth(y, m) THEN [y |-> y, m |-> m, d |-> prev.d]
           ELSE [y |-> IF m = 12 THEN y + 1 ELSE y,
                 m |-> IF m = 12 THEN 1 ELSE m + 1,
                 d |-> prev.d - DaysInMonth(y, m)]

\* The months the user pages through.
ViewedMonths == {<<2023, 12>>, <<2024, 1>>, <<2024, 2>>, <<2024, 3>>}

\* Variant: paging keeps the selected day.
TurnMonth_KeepsSelection(by) ==
  /\ viewDate' = IF IsValidDate(viewDate) THEN SetMonth(viewDate, viewDate.m + by)
                 ELSE InvalidDate
  /\ IsValidDate(viewDate') => <<viewDate'.y, viewDate'.m>> \in ViewedMonths
  /\ Quiet
  /\ UNCHANGED <<isListening, transactions, isParsing, provider, modalOpen,
                 currentParseResult, selectedDate, items, text, inflight,
                 apiKey, timeZone, storage, clock, nextId>>

\* handlePrevMonth / handleNextMonth, by = -1 / +1.
TurnMonth(by) ==
  /\ viewDate' = IF IsValidDate(viewDate) THEN SetMonth(viewDate, viewDate.m + by)
                 ELSE InvalidDate
  /\ IsValidDate(viewDate') => <<viewDate'.y, viewDate'.m>> \in ViewedMonths
  /\ selectedDate' = NullDate
  /\ Quiet
  /\ UNCHANGED <<isListening, transactions, isParsing, provider, modalOpen,
                 currentParseResult, items, text, inflight, apiKey, timeZone,
                 storage, clock, nextId>>

handlePrevMonth == ~ModalRendered /\ TurnMonth(-1)
handleNextMonth == ~ModalRendered /\ TurnMonth(1)

\* --------------------------------------------------------- TransactionList
\* groups[t.date].push(t) for each transaction, groups so far first.
RECURSIVE groupsFrom(_, _)
groupsFrom(groups, ts) ==
  IF ts = << >> THEN groups
  ELSE LET t == Head(ts)
           before == IF t.date \in DOMAIN groups THEN groups[t.date] ELSE << >>
       IN  groupsFrom(Put(groups, t.date, Append(before, t)), Tail(ts))

\* Variant: the comparison is reversed.
localeCompare_Reversed(a, b) ==
  IF a = b THEN 0
  ELSE LET i == CHOOSE j \in 1..3 : a[j] # b[j] /\ \A k \in 1..(j - 1) : a[k] = b[k]
       IN  IF a[i] < b[i] THEN 1 ELSE -1

\* a.localeCompare(b) on date strings: -1, 0 or 1.
localeCompare(a, b) ==
  IF a = b THEN 0
  ELSE LET i == CHOOSE j \in 1..3 : a[j] # b[j] /\ \A k \in 1..(j - 1) : a[k] = b[k]
       IN  IF a[i] < b[i] THEN -1 ELSE 1

\* The keys sorted by (a, b) => b.localeCompare(a).
RECURSIVE sortDesc(_)
sortDesc(keys) ==
  IF keys = {} THEN << >>
  ELSE LET top == CHOOSE k \in keys : \A o \in keys : localeCompare(k, o) >= 0
       IN  <<top>> \o sortDesc(keys \ {top})

\* groupedTransactions: [date, items] pairs, dates descending.
groupedTransactions(ts) ==
  LET groups == groupsFrom(<< >>, ts)
      dates == sortDesc(DOMAIN groups)
  IN  [i \in 1..Len(dates) |-> [date |-> dates[i], items |-> groups[dates[i]]]]

\* items.filter(i => i.type === EXPENSE).reduce((acc, c) => acc + c.amount, 0)
RECURSIVE expenseSubtotal(_)
expenseSubtotal(l) ==
  IF l = << >> THEN 0
  ELSE (IF Head(l).type = EXPENSE THEN Head(l).amount ELSE 0) + expenseSubtotal(Tail(l))

\* ------------------------------------------------------- App.handleDelete
\* Variant: the answer to the dialog is ignored.
handleDelete_IgnoresAnswer(id, confirmed) ==
  LET Other(t) == t.id # id
  IN  /\ transactions' = SelectSeq(transactions, Other)
      /\ SaveEffect
      /\ Quiet
      /\ UNCHANGED <<isListening, isParsing, provider, modalOpen,
                     currentParseResult, viewDate, selectedDate, items, text,
                     inflight, apiKey, timeZone, clock, nextId>>

\* if (confirm('Delete this record?')) setTransactions(prev.filter(t => t.id !== id))
handleDelete(id, confirmed) ==
  LET Other(t) == t.id # id
  IN  /\ transactions' = IF confirmed THEN SelectSeq(transactions, Other) ELSE transactions
      /\ SaveEffect
      /\ Quiet
      /\ UNCHANGED <<isListening, isParsing, provider, modalOpen,
                     currentParseResult, viewDate, selectedDate, items, text,
                     inflight, apiKey, timeZone, clock, nextId>>

\* The delete button of a row of the list, and the answer to the confirm dialog.
Delete ==
  /\ ~ModalRendered
  /\ \E i \in 1..Len(Shown) : \E confirmed \in BOOLEAN : handleDelete(Shown[i].id, confirmed)

\* ----------------------------------------------------------- specifications
\* The application.
Next ==
  \/ \E t \in Texts : TypeText(t)
  \/ \E p \in AIProvider : SetProvider(p)
  \/ toggleListening
  \/ \E t \in Texts : SpeechResult(t)
  \/ SpeechEnd
  \/ handleSubmit
  \/ SettleRejected
  \/ Respond(AppResponses)
  \/ Tick
  \/ Confirm
  \/ Cancel

Spec == Init /\ [][Next]_vars

\* The application when every remote call returns or fails in the end.
LiveSpec ==
  Init /\ [][Next]_vars /\ WF_vars(Respond(AppResponses)) /\ WF_vars(SettleRejected)

\* The parse pipeline on one request, over every provider answer.
ParseNext ==
  \/ inflight = << >> /\ ~last.settled /\ \E t \in Texts : TypeText(t)
  \/ inflight = << >> /\ ~last.settled /\ \E p \in AIProvider : SetProvider(p)
  \/ ~last.settled /\ handleSubmit
  \/ ~last.settled /\ Tick
  \/ SettleRejected
  \/ Respond(AllResponses)

ParseSpec == Init /\ [][ParseNext]_vars

\* What the browser's storage may hold at startup: a ledger of four
\* transactions (not in date order), nothing, or text that does not parse.
Seed1 == [id |-> 11, amount |-> 20, category |-> "Food", note |-> "lunch",
          date |-> <<2024, 1, 15>>, type |-> EXPENSE, createdAt |-> 0]
Seed2 == [id |-> 12, amount |-> 100, category |-> "Salary", note |-> "pay",
          date |-> <<2024, 1, 31>>, type |-> INCOME, createdAt |-> 0]
Seed3 == [id |-> 13, amount |-> 50, category |-> "Transport", note |-> "taxi",
          date |-> <<2024, 2, 1>>, type |-> EXPENSE, createdAt |-> 0]
Seed4 == [id |-> 14, amount |-> 30, category |-> "Food", note |-> "dinner",
          date |-> <<2024, 1, 31>>, type |-> EXPENSE, createdAt |-> 0]
StoredBlobs == {NoBlob, CorruptBlob, saveTransactions(<<Seed1, Seed2, Seed3, Seed4>>)}

ConfiguredKey == [defined |-> TRUE, value |-> <<"k">>]

\* The ledger: a returning user pages through the calendar, selects days,
\* deletes rows and adds what Gemini parsed.
LedgerInit == \E stored \in StoredBlobs : Boot(stored) /\ apiKey = ConfiguredKey

LedgerNext ==
  \/ ~ModalRendered /\ TypeText(<<"a">>)
  \/ ~ModalRendered /\ handleSubmit
  \/ Respond(AppResponses)
  \/ Confirm
  \/ Cancel
  \/ DateClick
  \/ ClearSelection
  \/ handlePrevMonth
  \/ handleNextMonth
  \/ Delete

LedgerSpec == LedgerInit /\ [][LedgerNext]_vars

\* The confirmation modal: a first-time user parses, edits, removes, and saves
\* once or cancels. The provider's answers are those that open the modal.
ModalFields == {"amount", "date"}

ModalResponses ==
  [p \in AIProvider |->
     {r \in AppResponses[p] :
        OpensModal(parseInput(Adapter(p, ConfiguredKey, r), TodayStr(1)))}]

ModalInit == Boot(NoBlob) /\ apiKey = ConfiguredKey

ModalNext ==
  \/ ~ModalRendered /\ TypeText(<<"a">>)
  \/ ~ModalRendered /\ handleSubmit
  \/ Respond(ModalResponses)
  \/ SingleEdit(ModalFields)
  \/ toggleSingleType
  \/ BulkEdit(ModalFields)
  \/ BulkToggleType
  \/ BulkRemove
  \/ transactions = << >> /\ Confirm
  \/ Cancel

ModalSpec == ModalInit /\ [][ModalNext]_vars

\* Every handler that runs while the app is used: a returning user with a
\* stored ledger switches provider, parses, clears a note, toggles a type,
\* removes a row, saves once or cancels, pages, selects and deletes. Per
\* provider the answers are those that open the modal, an answer with no
\* content and a rejection.
WriterResponses ==
  [p \in AIProvider |->
     ModalResponses[p] \cup
       {r \in AppResponses[p] :
          \/ r.k = "reject"
          \/ r.k = "response" /\ "text" \in DOMAIN r /\ r.text = Empty
          \/ r.k = "response" /\ "content" \in DOMAIN r /\ r.content = Empty}]

WriterInit ==
  /\ Boot(saveTransactions(<<Seed1, Seed2, Seed3, Seed4>>))
  /\ apiKey = ConfiguredKey

WriterNext ==
  \/ ~ModalRendered /\ TypeText(<<"a">>)
  \/ ~ModalRendered /\ \E p \in AIProvider : SetProvider(p)
  \/ ~ModalRendered /\ handleSubmit
  \/ Respond(WriterResponses)
  \/ SingleEdit({"note"})
  \/ BulkToggleType
  \/ BulkRemove
  \/ nextId = 1 /\ Confirm
  \/ Cancel
  \/ DateClick
  \/ ClearSelection
  \/ handlePrevMonth
  \/ handleNextMonth
  \/ Delete

WriterSpec == WriterInit /\ [][WriterNext]_vars

\* ------------------------------------------------------------------ claims
ItemFields == {"amount", "category", "note", "date", "type"}

\* Transaction t carries the five fields of pending item it.
Carries(t, it) == \A k \in ItemFields : k \in DOMAIN t /\ k \in DOMAIN it /\ t[k] = it[k]

\* C1: confirming the modal with N pending items adds exactly N transactions,
\* one per pending item, each carrying that item's amount, category, note,
\* date and type.
C1_ConfirmAddsOnePerItem ==
  [][Confirm =>
       /\ Len(transactions') = Len(transactions) + Len(items)
       /\ \A i \in 1..Len(items) :
            \E j \in 1..Len(transactions') : Carries(transactions'[j], items[i])]_vars

\* The adapter returned null or the empty list.
AdapterGaveNothing ==
  /\ last.settled
  /\ last.adapter.k = "return"
  /\ \/ last.adapter.v.t = "null"
     \/ IsArray(last.adapter.v) /\ Len(last.adapter.v.a) = 0

\* C2: when the selected adapter yields null or an empty list parseInput
\* returns null: it raises nothing and it never returns an empty list.
C2_NothingGivesNull ==
  /\ AdapterGaveNothing => last.result = Return(JNull)
  /\ last.settled /\ last.result.k = "return" /\ IsArray(last.result.v)
       => Len(last.result.v.a) > 0

C2_Witness ==
  /\ AdapterGaveNothing
  /\ last.provider = "deepseek"
  /\ last.adapter = Return(JArr(<< >>))
  /\ last.result = Return(JNull)

\* The adapter returned a non-empty list of records of the declared shape.
ShapedList(v) ==
  /\ v.t = "arr"
  /\ Len(v.a) > 0
  /\ \A i \in 1..Len(v.a) :
       v.a[i].t = "obj" /\ {"amount", "category", "type", "date"} \subseteq DOMAIN v.a[i].o
AdapterGaveShaped ==
  last.settled /\ last.adapter.k = "return" /\ ShapedList(last.adapter.v)

\* The result has the adapter's length and order.
SameLengthAndOrder ==
  /\ last.result.k = "return"
  /\ last.result.v.t = "list"
  /\ Len(last.result.v.a) = Len(last.adapter.v.a)
  /\ \A i \in 1..Len(last.adapter.v.a) :
       \A k \in {"amount", "category", "type"} :
         /\ k \in DOMAIN last.result.v.a[i]
         /\ last.result.v.a[i][k] = last.adapter.v.a[i].o[k]

NonEmptyDate(o) == "date" \in DOMAIN o /\ o.date # << >>
NonEmptyNote(o) == "note" \in DOMAIN o /\ o.note # ""

\* C3 as stated: for every non-empty list of records of the declared shape,
\* parseInput returns a list of the same length and order in which every
\* element has a non-empty date and a non-empty note.
C3_EveryNoteNonEmpty ==
  AdapterGaveShaped =>
    /\ SameLengthAndOrder
    /\ \A i \in 1..Len(last.result.v.a) :
         NonEmptyDate(last.result.v.a[i]) /\ NonEmptyNote(last.result.v.a[i])

\* C3 amended: same length, same order, every date non-empty, and every note
\* non-empty except where the record has no note of its own and an empty
\* category; the note then is that empty category.
C3_NoteNonEmptyUnlessCategoryEmpty ==
  AdapterGaveShaped =>
    /\ SameLengthAndOrder
    /\ \A i \in 1..Len(last.result.v.a) :
         LET in == last.adapter.v.a[i].o
             out == last.result.v.a[i]
         IN  /\ NonEmptyDate(out)
             /\ "note" \in DOMAIN out
             /\ (NonEmptyNote(in) \/ in.category # "") => NonEmptyNote(out)
             /\ (~NonEmptyNote(in) /\ in.category = "") => out.note = ""

C3_Witness ==
  /\ AdapterGaveShaped
  /\ Len(last.adapter.v.a) = MaxItems
  /\ last.adapter.v.a[1].o.date = << >>
  /\ "note" \notin DOMAIN last.adapter.v.a[1].o
  /\ last.adapter.v.a[1].o.category = "Food"
  /\ last.adapter.v.a[MaxItems].o.category = ""
  /\ last.result.v.a[1].note = "Food"
  /\ last.result.v.a[1].date = last.today

\* The adapter returned a non-empty list of objects.
AdapterGaveRecords ==
  /\ last.settled
  /\ last.adapter.k = "return"
  /\ last.adapter.v.t = "arr"
  /\ Len(last.adapter.v.a) > 0
  /\ \A i \in 1..Len(last.adapter.v.a) : last.adapter.v.a[i].t = "obj"

\* C4: a record with no date gets the invocation's current date in ISO form,
\* a record with no note gets its category as note, a record that has a date
\* and a note keeps both, and amount, category and type are never altered.
\* (An empty string counts as no date and no note.)
C4_DefaultFilling ==
  AdapterGaveRecords =>
    /\ last.result.k = "return"
    /\ last.result.v.t = "list"
    /\ Len(last.result.v.a) = Len(last.adapter.v.a)
    /\ \A i \in 1..Len(last.adapter.v.a) :
         LET in == last.adapter.v.a[i].o
             out == last.result.v.a[i]
         IN  /\ "date" \notin DOMAIN in => "date" \in DOMAIN out /\ out.date = last.today
             /\ ("note" \notin DOMAIN in /\ "category" \in DOMAIN in)
                  => "note" \in DOMAIN out /\ out.note = in.category
             /\ (NonEmptyDate(in) /\ NonEmptyNote(in))
                  => out.date = in.date /\ out.note = in.note
             /\ \A k \in {"amount", "category", "type"} \cap DOMAIN in :
                  k \in DOMAIN out /\ out[k] = in[k]

C4_Witness ==
  /\ AdapterGaveRecords
  /\ clock = Len(Days)
  /\ Len(last.adapter.v.a) = MaxItems
  /\ DOMAIN last.adapter.v.a[1].o = {"amount", "category", "type"}
  /\ last.result.v.a[1].date = Days[Len(Days)]
  /\ last.result.v.a[1].note = "Food"
  /\ NonEmptyDate(last.adapter.v.a[MaxItems].o)
  /\ NonEmptyNote(last.adapter.v.a[MaxItems].o)
  /\ last.result.v.a[MaxItems].note = "taxi"

\* DeepSeek answered with success and a content that is the text of a JSON value.
DeepSeekGaveJson ==
  /\ last.settled
  /\ last.provider = "deepseek"
  /\ last.resp.k = "response"
  /\ last.resp.ok
  /\ last.resp.content.c = "json"

\* C5: for one record r the contents [r], {"transactions": [r]} and r all make
\* parseWithDeepSeek return [r], and every JSON content value is mapped to a
\* list without a failure.
C5_EveryJsonValueBecomesAList ==
  DeepSeekGaveJson =>
    /\ last.adapter.k = "return"
    /\ last.adapter.v.t = "arr"
    /\ \A r \in Records :
         last.resp.content.v \in
             {JArr(<<JObj(r)>>), JObj([transactions |-> JArr(<<JObj(r)>>)]), JObj(r)}
           => last.adapter.v = JArr(<<JObj(r)>>)

\* The provider call succeeded with no usable content: absent, empty, JSON null.
NoUsableContent ==
  /\ last.settled
  /\ last.resp.k = "response"
  /\ IF last.provider = "deepseek"
       THEN last.resp.ok /\ last.resp.content \in {Absent, NullContent, Empty, Json(JNull)}
       ELSE last.resp.text \in {Absent, Empty, Json(JNull)}

\* C7: when the upstream call succeeds with no usable content, the Gemini
\* adapter and the DeepSeek adapter both yield null and do not throw.
C7_NoContentGivesNull == NoUsableContent => last.adapter = Return(JNull)

\* A key that is absent, empty or blank.
KeyUnusable == ~apiKey.defined \/ \A i \in 1..Len(apiKey.value) : apiKey.value[i] = " "

\* C6: with the DeepSeek credential absent, empty or whitespace-only, a DeepSeek
\* parse fails with the configure-the-key error, shown as it is, and the request
\* issues no network call.
C6_MissingKeyFailsBeforeFetch ==
  KeyUnusable =>
    /\ \A i \in 1..Len(inflight) :
         inflight[i].provider = "deepseek" => inflight[i].fetches = 0
    /\ (last.settled /\ last.provider = "deepseek") =>
         /\ last.fetches = 0
         /\ last.resp = NoResponse
         /\ last.result = Throw("Error", KeyMissingMessage)
         /\ alerts = <<<<"[", "DeepSeek", "] ", "error: ">> \o KeyMissingMessage>>

C6_Witness ==
  /\ apiKey = [defined |-> TRUE, value |-> <<" ">>]
  /\ last.settled
  /\ last.provider = "deepseek"
  /\ Len(alerts) = 1

\* C8: at most one parse request is in flight at any time.
C8_AtMostOneInFlight == Len(inflight) <= 1

\* A request is in flight while the input box holds text to submit.
C8_Witness == Len(inflight) = 1 /\ trim(text) # << >>

\* The step settled a request whose parse failed.
FailedStep == last'.settled /\ last'.result.k = "throw"

\* C9: every failed parse request is terminal: the error is shown exactly once,
\* the request leaves and none is started, the modal is not opened and the
\* transaction list is unchanged.
C9_FailureIsTerminal ==
  [][FailedStep =>
       /\ alerts' = <<ErrorMsg(last'.provider, last'.result.e)>>
       /\ Len(inflight') = Len(inflight) - 1
       /\ ~isParsing'
       /\ modalOpen' = modalOpen
       /\ currentParseResult' = currentParseResult
       /\ items' = items
       /\ transactions' = transactions
       /\ storage' = storage]_vars

C9_Witness ==
  /\ last.settled
  /\ last.provider = "deepseek"
  /\ last.resp.k = "response"
  /\ ~last.resp.ok
  /\ alerts = <<<<"[", "DeepSeek", "] ", "error: ",
                  "Request failed (", "401", ")", ": ", "Authentication Fails">>>>

\* The step settled a request for which parseInput returned null.
NullStep == last'.settled /\ last'.result = Return(JNull)

\* C10: when parseInput returns null, handleParse shows the could-not-recognize
\* message, which is not the error message, does not open the modal and leaves
\* the pending parse result and the transaction list unchanged.
C10_NullIsReportedApart ==
  [][NullStep =>
       /\ alerts' = <<UnrecognizedMsg(last'.provider)>>
       /\ \A m \in {<< >>, KeyMissingMessage, <<"fetch failed">>} :
            alerts'[1] # ErrorMsg(last'.provider, [name |-> "Error", message |-> m])
       /\ alerts'[1][4] # "error: "
       /\ modalOpen' = modalOpen
       /\ currentParseResult' = currentParseResult
       /\ transactions' = transactions]_vars

C10_Witness ==
  /\ last.settled
  /\ last.result = Return(JNull)
  /\ last.adapter = Return(JArr(<< >>))
  /\ alerts = <<UnrecognizedMsg(last.provider)>>

\* C11: cancelling the confirmation modal, in single or batch mode and after
\* any edits and removals, closes the modal and leaves the transaction list and
\* the persisted collection as they were when the modal opened: every step
\* taken while the modal is shown, other than Save, keeps both, and Cancel
\* closes the modal.
C11_CancelLeavesStore ==
  [][(ModalRendered /\ ~Confirm) =>
       /\ transactions' = transactions
       /\ storage' = storage
       /\ Cancel => ~modalOpen']_vars

\* A batch was edited, one row was removed, and the modal was cancelled.
C11_Witness ==
  /\ ~modalOpen
  /\ currentParseResult # JNull
  /\ Len(currentParseResult.a) = 2
  /\ Len(items) = 1
  /\ items[1].amount = -5
  /\ transactions = << >>
  /\ storage = saveTransactions(<< >>)

\* C12: when the modal opens its pending items equal the latest parse result,
\* and no field edit, type toggle or removal in the modal changes the parse
\* result the app holds.
C12_ModalWorksOnACopy ==
  [][/\ (~modalOpen /\ modalOpen') => items' = currentParseResult'.a
     /\ (ModalRendered /\ items' # items) => currentParseResult' = currentParseResult]_vars

\* The shown modal holds one item, edited and toggled, of a batch of two.
C12_Witness ==
  /\ ModalRendered
  /\ Len(currentParseResult.a) = 2
  /\ currentParseResult.a[1].amount = 15
  /\ currentParseResult.a[1].type = EXPENSE
  /\ Len(items) = 1
  /\ items[1].category = "Food"
  /\ items[1].amount = -5
  /\ items[1].type = INCOME
  /\ items[1].date = <<2024, 2, 1>>

\* The ids in the store.
StoredIds == {transactions[i].id : i \in 1..Len(transactions)}

\* C13: a confirmed deletion of id x removes exactly the transaction whose id
\* is x and leaves every other transaction in the store, unchanged and in its
\* original order; a declined deletion leaves the store unchanged.
C13_DeleteRemovesExactlyOne ==
  [][\A x \in StoredIds :
       /\ handleDelete(x, TRUE) =>
            \E k \in 1..Len(transactions) :
              /\ transactions[k].id = x
              /\ transactions' = RemoveAt(transactions, k)
              /\ storage' = saveTransactions(transactions')
       /\ handleDelete(x, FALSE) =>
            transactions' = transactions /\ storage' = storage]_vars

\* The second of the four stored transactions was deleted.
C13_Witness ==
  /\ transactions = <<Seed1, Seed3, Seed4>>
  /\ storage = saveTransactions(<<Seed1, Seed3, Seed4>>)

\* C14: clicking day D of the viewed month when no date or another date is
\* selected selects D; clicking D while D is selected clears the selection, and
\* the list shows the month again.
C14_DayToggle ==
  [][\A day \in DaysOfGrid(viewDate) :
       handleDateClick(day) =>
         LET D == [y |-> viewDate.y, m |-> viewDate.m, d |-> day]
         IN  IF selectedDate = D
               THEN /\ selectedDate' = NullDate
                    /\ Shown' = monthTransactions(transactions, viewDate, timeZone)
               ELSE selectedDate' = D]_vars

\* Day 31 of January is selected and the list shows that day only.
C14_Witness ==
  /\ selectedDate = [y |-> 2024, m |-> 1, d |-> 31]
  /\ viewDate.m = 1
  /\ Shown = <<Seed2, Seed4>>
  /\ Len(monthTransactions(transactions, viewDate, timeZone)) = 3

\* The sum of the amounts of the transactions of one type.
RECURSIVE SumAmounts(_, _)
SumAmounts(ts, type) ==
  IF ts = << >> THEN 0
  ELSE (IF Head(ts).type = type THEN Head(ts).amount ELSE 0) + SumAmounts(Tail(ts), type)

\* The stored transactions dated y-m-d.
DatedOn(y, m, d) ==
  LET On(t) == "date" \in DOMAIN t /\ t.date = <<y, m, d>>
  IN  SelectSeq(transactions, On)

\* C15: for every day of the viewed month the calendar's total of the day is
\* the sum of the amounts of that day's INCOME transactions minus the sum of
\* the amounts of its EXPENSE transactions, and a day with no transaction has
\* no total.
C15_DailyTotalIsIncomeMinusExpense ==
  \A day \in DaysOfGrid(viewDate) :
    LET stats == dailyStats(monthTransactions(transactions, viewDate, timeZone),
                            viewDate, timeZone)
        those == DatedOn(viewDate.y, viewDate.m, day)
    IN  IF those = << >> THEN day \notin DOMAIN stats
        ELSE /\ day \in DOMAIN stats
             /\ stats[day] = SumAmounts(those, INCOME) - SumAmounts(those, EXPENSE)

\* The stored transactions whose date has the viewed year and month.
DatedInViewedMonth ==
  LET In(t) == /\ IsValidDate(viewDate)
               /\ "date" \in DOMAIN t
               /\ t.date # << >>
               /\ t.date[1] = viewDate.y
               /\ t.date[2] = viewDate.m
  IN  SelectSeq(transactions, In)

Elements(l) == {l[i] : i \in 1..Len(l)}

\* C16: with no date selected the list shows exactly the stored transactions
\* whose date has the viewed year and month; with date D selected, those whose
\* date is exactly D. What is shown is part of the month's transactions, which
\* are part of the store.
C16_ListShowsMonthOrDay ==
  /\ selectedDate = NullDate => Shown = DatedInViewedMonth
  /\ selectedDate # NullDate =>
       Shown = DatedOn(selectedDate.y, selectedDate.m, selectedDate.d)
  /\ Elements(Shown) \subseteq Elements(monthTransactions(transactions, viewDate, timeZone))
  /\ Elements(monthTransactions(transactions, viewDate, timeZone)) \subseteq Elements(transactions)

\* Date string a is later than date string b.
Later(a, b) == a[1] * 10000 + a[2] * 100 + a[3] > b[1] * 10000 + b[2] * 100 + b[3]

\* C17: the list view partitions what it shows into groups by exact date
\* string: every shown transaction is in exactly one group, the groups are in
\* strictly descending order of date string, a group keeps the store order, and
\* a group's subtotal is the sum of the amounts of its EXPENSE transactions.
C17_GroupsByDateDescending ==
  LET groups == groupedTransactions(Shown)
  IN  /\ \A k \in 1..Len(Shown) :
           Cardinality({i \in 1..Len(groups) :
                          \E j \in 1..Len(groups[i].items) : groups[i].items[j] = Shown[k]}) = 1
      /\ \A i \in 1..Len(groups) :
           LET OfGroup(t) == t.date = groups[i].date
           IN  /\ groups[i].items = SelectSeq(Shown, OfGroup)
               /\ groups[i].items # << >>
               /\ expenseSubtotal(groups[i].items) = SumAmounts(groups[i].items, EXPENSE)
      /\ \A i \in 1..Len(groups) : \A j \in 1..Len(groups) :
           i < j => Later(groups[i].date, groups[j].date)

\* January in a zone ahead of UTC: the store order is not the date order, and
\* the later day holds an income and an expense.
C17_Witness ==
  /\ Shown = <<Seed1, Seed2, Seed4>>
  /\ groupedTransactions(Shown) =
       <<[date |-> <<2024, 1, 31>>, items |-> <<Seed2, Seed4>>],
         [date |-> <<2024, 1, 15>>, items |-> <<Seed1>>]>>
  /\ expenseSubtotal(<<Seed2, Seed4>>) = 30

\* C18: after every mutation of the transaction list the whole list is in
\* storage before the next event is handled, so the persisted collection
\* equals the in-memory list in every quiescent state; this includes the state
\* after startup, where what was loaded has been written back.
C18_StorageEqualsList ==
  /\ storage = saveTransactions(transactions)
  /\ loadTransactions(storage) = transactions

\* A stored transaction was deleted and a new one was confirmed.
C18_Witness ==
  /\ Len(transactions) = 4
  /\ transactions[1].id = 1
  /\ Seed4 \notin Elements(transactions)
  /\ storage = saveTransactions(transactions)

\* C19: every transaction in the store has one type out of EXPENSE and INCOME,
\* a date, and an amount greater than or equal to zero.
C19_StoredTransactionsWellFormed ==
  \A i \in 1..Len(transactions) :
    LET t == transactions[i]
    IN  /\ "type" \in DOMAIN t /\ t.type \in TransactionType
        /\ "date" \in DOMAIN t /\ t.date # << >>
        /\ "amount" \in DOMAIN t /\ t.amount >= 0

\* C20: a transaction in the store stays as it is, field by field, until a
\* confirmed deletion of its id removes it.
C20_StoredTransactionsImmutable ==
  [][\A i \in 1..Len(transactions) :
       \/ \E j \in 1..Len(transactions') : transactions'[j] = transactions[i]
       \/ /\ handleDelete(transactions[i].id, TRUE)
          /\ \A j \in 1..Len(transactions') : transactions'[j].id # transactions[i].id]_vars

\* Two confirmations after one deletion: the older records are still there.
C20_Witness ==
  /\ Len(transactions) = 5
  /\ transactions[1].id = 2
  /\ transactions[2].id = 1
  /\ transactions[3] = Seed1

\* C22: when every remote call returns or fails in the end, every submitted
\* parse request leaves the application, and leaves it with isParsing false,
\* whether it opened the modal, came back null or threw.
C22_EveryRequestSettles == (inflight # << >>) ~> (inflight = << >> /\ ~isParsing)

\* A request that threw has settled and the input is enabled again.
C22_Witness ==
  /\ last.settled
  /\ last.result.k = "throw"
  /\ last.provider = "gemini"
  /\ inflight = << >>
  /\ ~isParsing
  /\ ~modalOpen


\* C21: the modal's mode depends on the number of pending items alone: the
\* single form exactly when there is one item, the batch list exactly when
\* there are several. A removal that leaves one item switches to the single
\* form on that item, and an edit in the single form keeps one item.
C21_ModeFollowsCount ==
  [][/\ ModalRendered' =>
          /\ (Mode' = "single") = (Len(items') = 1)
          /\ (Mode' = "batch") = (Len(items') > 1)
     /\ (Mode = "batch" /\ ModalRendered' /\ Len(items') = 1) =>
          /\ Mode' = "single"
          /\ \E i \in 1..Len(items) : items[i] = items'[1]
          /\ Len(items) = 2
     /\ (Mode = "single" /\ ModalRendered') =>
          /\ Mode' = "single"
          /\ Len(items') = 1]_vars

\* A batch of two was cut down to one item, which was then edited in the
\* single form.
C21_Witness ==
  /\ Mode = "single"
  /\ Len(currentParseResult.a) = 2
  /\ items[1].amount = -5
  /\ items[1].date = <<2024, 2, 1>>


\* The fields in which two items differ.
FieldsChanged(a, b) ==
  {k \in DOMAIN a \cup DOMAIN b : ~(k \in DOMAIN a /\ k \in DOMAIN b /\ a[k] = b[k])}

\* C24: in the batch list an edit changes one field of one item and a removal
\* takes out one item; every other item keeps its values and its place among
\* the others.
C24_BulkEditsAreLocal ==
  [][(Mode = "batch" /\ ModalRendered' /\ items' # items) =>
        \/ /\ Len(items') = Len(items)
           /\ \E i \in 1..Len(items) :
                /\ Cardinality(FieldsChanged(items[i], items'[i])) = 1
                /\ \A j \in 1..Len(items) : j # i => items'[j] = items[j]
        \/ \E i \in 1..Len(items) : items' = RemoveAt(items, i)]_vars

\* The second row of a batch was edited twice; the first row is as parsed.
C24_Witness ==
  /\ Mode = "batch"
  /\ items[1] = currentParseResult.a[1]
  /\ items[2].amount = -5
  /\ items[2].date = <<2024, 2, 1>>
  /\ items[2].date # currentParseResult.a[2].date

\* C26: while the modal is open the pending list is never empty, removal
\* happens only in the batch list, and Save is never handed an empty list.
C26_PendingNeverEmpty ==
  [][/\ modalOpen' => Len(items') >= 1
     /\ (modalOpen /\ Len(items') < Len(items)) => Mode = "batch"
     /\ transactions' # transactions => Len(items) >= 1]_vars

\* The first row of a batch of two was removed and the modal shows the other.
C26_Witness ==
  /\ modalOpen
  /\ Len(currentParseResult.a) = 2
  /\ currentParseResult.a[1] # currentParseResult.a[2]
  /\ items = <<currentParseResult.a[2]>>


\* C25: the selected date is null or lies in the viewed year and month; every
\* step that changes the viewed date or adds a transaction (previous month,
\* next month, Save) leaves no date selected.
C25_SelectionInsideViewedMonth ==
  /\ [](selectedDate = NullDate \/ SameMonth(selectedDate, viewDate))
  /\ [][(\/ viewDate' # viewDate
         \/ handlePrevMonth
         \/ handleNextMonth
         \/ Len(transactions') > Len(transactions)) => selectedDate' = NullDate]_vars

\* The last day of December 2023 is selected after paging back.
C25_Witness ==
  /\ IsValidDate(viewDate)
  /\ viewDate.m = 12
  /\ selectedDate # NullDate
  /\ selectedDate.y = 2023
  /\ selectedDate.d = 31

\* The calendar month after / before year y, month m.
MonthAfter(y, m) == IF m = 12 THEN <<y + 1, 1>> ELSE <<y, m + 1>>
MonthBefore(y, m) == IF m = 1 THEN <<y - 1, 12>> ELSE <<y, m - 1>>

\* C27: the next-month button shows the month right after the viewed one and
\* the previous-month button the month right before it, whatever the day of
\* the viewed date (29, 30 and 31 included), so that next followed by
\* previous shows the same year and month again.
C27_PagingMovesOneMonth ==
  [][/\ (handleNextMonth /\ IsValidDate(viewDate)) =>
          <<viewDate'.y, viewDate'.m>> = MonthAfter(viewDate.y, viewDate.m)
     /\ (handlePrevMonth /\ IsValidDate(viewDate)) =>
          <<viewDate'.y, viewDate'.m>> = MonthBefore(viewDate.y, viewDate.m)]_vars

\* C28: right after a Save the new transaction is among the displayed ones:
\* no day is selected and the viewed year and month are those of the new
\* transaction's date.
C28_NewTransactionIsShown ==
  [][Confirm =>
       /\ selectedDate' = NullDate
       /\ "date" \in DOMAIN transactions'[1]
       /\ transactions'[1].date # << >>
       /\ IsValidDate(viewDate')
       /\ viewDate'.y = transactions'[1].date[1]
       /\ viewDate'.m = transactions'[1].date[2]
       /\ transactions'[1] \in Elements(Shown')]_vars


\* C23: the transaction list has one writer path. Only Save and a confirmed
\* delete change it; submitting, a parse completing or failing, Cancel, edits
\* and removals of pending items, the provider switch, paging and day
\* selection leave it, and what is stored, as they are.
C23_OnlyConfirmAndDeleteWrite ==
  [][(transactions' # transactions \/ storage' # storage) =>
        \/ Confirm
        \/ \E x \in StoredIds : handleDelete(x, TRUE)]_vars

\* With DeepSeek chosen, a day of February selected and a parse result
\* cancelled after an edit, the stored ledger is the one the session began with.
C23_Witness ==
  /\ provider = "deepseek"
  /\ ~modalOpen
  /\ currentParseResult # JNull
  /\ items # << >>
  /\ items # currentParseResult.a
  /\ IsValidDate(viewDate)
  /\ viewDate.m = 2
  /\ selectedDate # NullDate
  /\ transactions = <<Seed1, Seed2, Seed3, Seed4>>
  /\ storage = saveTransactions(transactions)

====
